---------------------------- MODULE Spec2Model ----------------------------
(***************************************************************************)
(* Model of plugins/slugify.py of stouch.                                  *)
(*                                                                         *)
(* The module is executed top to bottom when it is imported: line 3        *)
(* imports BasePlugin, lines 5-10 import the third-party slugify function  *)
(* behind an ImportError guard, lines 13-28 define class SlugifyPlugin.    *)
(* Its one method, process, is a single call of the imported function.     *)
(*                                                                         *)
(* The slugify function itself is third-party code that is not part of     *)
(* the repository.  It is modelled as an uninterpreted function lib of the *)
(* arguments of the call, fixed in the initial state and otherwise         *)
(* arbitrary: it may return any string or raise.  Properties of the        *)
(* slugification algorithm itself are therefore not decided by this model. *)
(***************************************************************************)
EXTENDS Naturals, Sequences, FiniteSets

VARIABLES
    pc,            \* position of the module's top-level execution
    depInstalled,  \* whether "from slugify import slugify" can succeed
    error,         \* the exception the module load ended with, or NoError
    classDefined,  \* whether the name SlugifyPlugin is bound (line 13 ran)
    instances,     \* number of SlugifyPlugin objects created so far
    lib,           \* the external slugify function
    history        \* the calls of process made so far, with their outcomes

vars == <<pc, depInstalled, error, classDefined, instances, lib, history>>

(* Bounds of the model. *)
MaxInstances == 2
MaxCalls == 3

(* The input strings the calls are drawn from. *)
Inputs == {"My File Name!.txt", "!!!"}

(* Keyword arguments a call of slugify may carry besides the text.  An     *)
(* option that is absent from the record is left at the library default.   *)
KwargsSet == {[separator |-> "-"], [separator |-> "_"]}

(* What a call of the external function can end with. *)
Return(v) == [kind |-> "return", value |-> v]
Raised == [kind |-> "raise", value |-> "Exception"]
Outcomes == {Return("my-file-name-txt"), Return(""), Raised}

LibArgs == Inputs \X KwargsSet

NoError == [type |-> "none", message |-> <<>>]

(* The message of lines 9-10, word by word. *)
InstallMessage ==
    <<"The", "'python-slugify'", "package", "is", "required", "to", "use",
      "the", "SlugifyPlugin.", "Please", "install", "it", "using",
      "'poetry", "install", "--extras", "\"slugify\"'", "or",
      "'pip", "install", "stouch[slugify]'.">>

(* The external function applied to a text and keyword arguments. *)
slugify(text, kwargs) == lib[<<text, kwargs>>]

---------------------------------------------------------------------------
(* Module load *)

(* Line 3: from stouch.base import BasePlugin (the package's own module). *)
ImportBase ==
    /\ pc = "import_base"
    /\ pc' = "import_slugify"
    /\ UNCHANGED <<depInstalled, error, classDefined, instances, lib, history>>

(* A guard that swallows the ImportError and lets the module go on. *)
ImportSlugifySwallow ==
    /\ pc = "import_slugify"
    /\ pc' = "class_def"
    /\ UNCHANGED <<depInstalled, error, classDefined, instances, lib, history>>

(* Lines 5-10: try the import; on ImportError raise a new ImportError with *)
(* the install message, which ends the execution of the module.            *)
ImportSlugify ==
    /\ pc = "import_slugify"
    /\ IF depInstalled
       THEN /\ pc' = "class_def"
            /\ error' = error
       ELSE /\ pc' = "failed"
            /\ error' = [type |-> "ImportError", message |-> InstallMessage]
    /\ UNCHANGED <<depInstalled, classDefined, instances, lib, history>>

(* Lines 13-28: the class statement binds SlugifyPlugin. *)
DefineClass ==
    /\ pc = "class_def"
    /\ pc' = "loaded"
    /\ classDefined' = TRUE
    /\ UNCHANGED <<depInstalled, error, instances, lib, history>>

---------------------------------------------------------------------------
(* The plugin *)

(* SlugifyPlugin(): only possible once the class exists. *)
Instantiate ==
    /\ classDefined
    /\ instances < MaxInstances
    /\ instances' = instances + 1
    /\ UNCHANGED <<pc, depInstalled, error, classDefined, lib, history>>

(* A process whose separator depends on the calls made before. *)
process_call_stateful(self, input_data) ==
    [text |-> input_data,
     kwargs |-> [separator |-> IF Len(history) = 0 THEN "-" ELSE "_"]]

(* A process that passes another separator. *)
process_call_underscore(self, input_data) ==
    [text |-> input_data, kwargs |-> [separator |-> "_"]]

(* Line 28: the arguments of the call, slugify(input_data, separator='-'). *)
process_call(self, input_data) ==
    [text |-> input_data, kwargs |-> [separator |-> "-"]]

(* Lines 18-28: process returns what the call returns; it has no handler,  *)
(* so what the call raises propagates.                                     *)
process(self, input_data) ==
    LET call == process_call(self, input_data)
    IN  slugify(call.text, call.kwargs)

(* plugin.process(input_data) on an existing instance. *)
Process(self, input_data) ==
    /\ classDefined
    /\ self \in 1..instances
    /\ Len(history) < MaxCalls
    /\ history' = Append(history,
                         [self |-> self,
                          input |-> input_data,
                          call |-> process_call(self, input_data),
                          outcome |-> process(self, input_data)])
    /\ UNCHANGED <<pc, depInstalled, error, classDefined, instances, lib>>

---------------------------------------------------------------------------

Init ==
    /\ pc = "import_base"
    /\ depInstalled \in BOOLEAN
    /\ error = NoError
    /\ classDefined = FALSE
    /\ instances = 0
    /\ lib \in [LibArgs -> Outcomes]
    /\ history = <<>>

Next ==
    \/ ImportBase
    \/ ImportSlugify
    \/ DefineClass
    \/ Instantiate
    \/ \E self \in 1..MaxInstances, input_data \in Inputs :
           Process(self, input_data)

Spec == Init /\ [][Next]_vars

---------------------------------------------------------------------------
(* Properties *)

(* phrase occurs in msg as a run of consecutive words. *)
Mentions(msg, phrase) ==
    \E k \in 0..Len(msg) :
        /\ k + Len(phrase) <= Len(msg)
        /\ \A j \in 1..Len(phrase) : msg[k + j] = phrase[j]

(* C3: when the slugify dependency cannot be imported, the load of the     *)
(* module never gets past the import guard: it ends failed with an         *)
(* ImportError whose message names the 'python-slugify' package and the    *)
(* poetry and pip install commands; the class SlugifyPlugin is never       *)
(* defined, so no instance exists and process is never called.             *)
C3_MissingDependencyFailsLoad ==
    ~depInstalled =>
        /\ pc \in {"import_base", "import_slugify", "failed"}
        /\ ~classDefined
        /\ instances = 0
        /\ history = <<>>
        /\ pc = "failed" =>
              /\ error.type = "ImportError"
              /\ Mentions(error.message, <<"'python-slugify'", "package", "is", "required">>)
              /\ Mentions(error.message, <<"'poetry", "install", "--extras", "\"slugify\"'">>)
              /\ Mentions(error.message, <<"'pip", "install", "stouch[slugify]'.">>)

C3_Witness ==
    /\ ~depInstalled
    /\ pc = "failed"
    /\ error.type = "ImportError"
    /\ ~classDefined

(* C7: the outcome of process depends only on its input: any two calls     *)
(* with the same input, on whichever instances and whatever calls were     *)
(* made before or between them, have the same outcome.                     *)
C7_OutcomeDependsOnlyOnInput ==
    \A i, j \in DOMAIN history :
        history[i].input = history[j].input =>
            history[i].outcome = history[j].outcome

C7_Witness ==
    /\ Len(history) >= 3
    /\ history[1].input = history[3].input
    /\ history[1].self # history[3].self
    /\ history[2].input # history[1].input
    /\ history[2].outcome # history[1].outcome

(* C8: process adds nothing of its own: every call passes the input text   *)
(* unchanged and the separator "-" as the only option (every other option  *)
(* is left at the library default), and the outcome of process is the      *)
(* outcome of that library call.                                           *)
C8_ProcessIsTheLibraryCall ==
    \A k \in DOMAIN history :
        /\ history[k].call.text = history[k].input
        /\ DOMAIN history[k].call.kwargs = {"separator"}
        /\ history[k].call.kwargs.separator = "-"
        /\ history[k].outcome = lib[<<history[k].input, [separator |-> "-"]>>]

C8_Witness ==
    /\ Len(history) >= 2
    /\ history[1].input # history[2].input
    /\ history[1].outcome.kind = "return"
    /\ lib[<<history[1].input, [separator |-> "_"]>>] # history[1].outcome

===========================================================================
